---- MODULE Spec2Model ----
(***************************************************************************)
(* Model of the input definition and binding engine of supercharge/console *)
(*   src/src/command.ts            Command.addArgument / Command.addOption  *)
(*   src/src/input/argv-input.ts   ArgvInput (lines 1-113) and              *)
(*                                 InputDefinition (lines 115-278)          *)
(* JavaScript strings are TLA+ strings, arrays and insertion-ordered Sets   *)
(* are sequences, Maps are functions.                                       *)
(***************************************************************************)
EXTENDS Integers, Sequences, FiniteSets, TLC

(* ------------------------------ bounds -------------------------------- *)

\* longest positional list `_` (command name included) handed to the binder
MaxPositional == 4
\* most option tokens in one parsed input
MaxOptionTokens == 2

(* --------------------------- input universes --------------------------- *)

ArgumentNames == {"file", "dir"}
OptionNames == {"verbose", "v"}
ShortcutStrings == {"v", "vx"}
OptionKeys == {"verbose", "v", "x"}
OptionValues == {"1", "2"}
\* `_` as the tokenizer delivers it: the command name, then the positional tokens
PositionalTokens == <<"cmd", "a.txt", "b.txt", "c.txt", "d.txt", "e.txt">>

(* --------------------------- JavaScript values ------------------------- *)

\* the value `undefined` used as a Map key / a name
undefined == "<undefined>"
\* no exception was thrown
NoError == ""
\* this.constructor.name of a plain Command
ClassName == "Command"

\* a `string | number` parameter
Num(i) == [num |-> i, str |-> "", type |-> "number"]
Str(s) == [num |-> 0, str |-> s, type |-> "string"]
\* Number.isInteger(v)
isInteger(v) == v.type = "number"
\* name === v, for a string name: false for every number
strictEquals(name, v) == v.type = "string" /\ v.str = name

\* Map.prototype.set
MapSet(m, k, v) == [x \in (DOMAIN m) \cup {k} |-> IF x = k THEN v ELSE m[x]]
EmptyMap == [x \in {} |-> ""]

\* Array.prototype.join(sep)
RECURSIVE join(_, _)
join(arr, sep) ==
  IF Len(arr) = 0 THEN ""
  ELSE IF Len(arr) = 1 THEN arr[1]
  ELSE arr[1] \o sep \o join(Tail(arr), sep)

\* String(array), the coercion String.prototype.includes applies to its argument
arrayToString(arr) == join(arr, ",")

\* String.prototype.includes(needle): substring search, "" is in every string
stringIncludes(value, needle) ==
  \/ Len(needle) = 0
  \/ \E i \in 1..(Len(value) - Len(needle) + 1) :
       SubSeq(value, i, i + Len(needle) - 1) = needle

\* Str(value).includes(needle) of @supercharge/strings: this.value.includes(needle),
\* here with an array as needle
StrIncludes(value, needle) == stringIncludes(value, arrayToString(needle))

(* --------------------------- InputDefinition --------------------------- *)

\* Set.find(predicate) over names: the index of the first match, 0 for undefined
findByName(set, v) ==
  IF \E i \in 1..Len(set) : strictEquals(set[i].name, v)
  THEN CHOOSE i \in 1..Len(set) :
         /\ strictEquals(set[i].name, v)
         /\ \A j \in 1..(i - 1) : ~strictEquals(set[j].name, v)
  ELSE 0

\* obj?.name()
nameOf(set, i) == IF i = 0 THEN undefined ELSE set[i].name

\* mutant of truthyAt: the index one past the end counts as present
truthyAt_offByOne(set, index) == index >= 0 /\ index <= Len(set)

\* !!set.toArray()[index]
truthyAt(set, index) == index >= 0 /\ index < Len(set)

\* mutant of hasOption: a shortcut matches as well
hasOption_orShortcut(opts, v) ==
  IF isInteger(v) THEN truthyAt(opts, v.num)
  ELSE \E i \in 1..Len(opts) :
         \/ strictEquals(opts[i].name, v)
         \/ \E k \in 1..Len(opts[i].shortcuts) : strictEquals(opts[i].shortcuts[k], v)

\* InputDefinition.hasOption(name)
hasOption(opts, v) ==
  IF isInteger(v) THEN truthyAt(opts, v.num)
  ELSE \E i \in 1..Len(opts) : strictEquals(opts[i].name, v)

\* InputDefinition.hasArgument(name)
hasArgument(argus, v) ==
  IF isInteger(v) THEN truthyAt(argus, v.num)
  ELSE \E i \in 1..Len(argus) : strictEquals(argus[i].name, v)

\* InputDefinition.argument(name): the found argument's index, 0 for undefined
argument(argus, v) == findByName(argus, v)

\* the (shortcut, registered option) pairs the nested forEach of addOption throws on
shortcutHits(opts, opt) ==
  {p \in (1..Len(opt.shortcuts)) \X (1..Len(opts)) :
     StrIncludes(opt.shortcuts[p[1]], opts[p[2]].shortcuts)}

\* the first pair in the order of the two nested loops
firstHit(hits) ==
  CHOOSE p \in hits :
    \A q \in hits : p[1] < q[1] \/ (p[1] = q[1] /\ p[2] <= q[2])

AlreadyRegistered(name) == "Option \"" \o name \o "\" is already registered."

ShortcutRegistered(shortcut, name) ==
  "Shortcut \"" \o shortcut \o "\" is already registered for option \"" \o name \o "\"."

\* InputDefinition.addOption(option): the options afterwards and the error thrown
addOption(opts, opt) ==
  IF hasOption(opts, Str(opt.name))
  THEN [error |-> AlreadyRegistered(opt.name), options |-> opts]
  ELSE IF shortcutHits(opts, opt) # {}
  THEN LET p == firstHit(shortcutHits(opts, opt))
       IN [error |-> ShortcutRegistered(opt.shortcuts[p[1]], opts[p[2]].name),
           options |-> opts]
  ELSE [error |-> NoError, options |-> Append(opts, opt)]

\* mutant of addArgument: no duplicate check
addArgument_noCheck(argus, arg) == [arguments |-> Append(argus, arg), error |-> NoError]

\* InputDefinition.addArgument(argument)
addArgument(argus, arg) ==
  IF hasArgument(argus, Str(arg.name))
  THEN [arguments |-> argus, error |-> AlreadyRegistered(arg.name)]
  ELSE [arguments |-> Append(argus, arg), error |-> NoError]

(* Members ArgvInput calls on InputDefinition and Input whose bodies are   *)
(* not part of the sources; they follow the design document (4.2, 4.3).    *)

\* InputDefinition.hasOptionShortcut(name)
hasOptionShortcut(opts, name) ==
  \E i \in 1..Len(opts) : \E k \in 1..Len(opts[i].shortcuts) : opts[i].shortcuts[k] = name

\* InputDefinition.optionByShortcut(name): index of the first option owning it
optionByShortcut(opts, name) ==
  IF hasOptionShortcut(opts, name)
  THEN CHOOSE i \in 1..Len(opts) :
         /\ \E k \in 1..Len(opts[i].shortcuts) : opts[i].shortcuts[k] = name
         /\ \A j \in 1..(i - 1) :
              \A k \in 1..Len(opts[j].shortcuts) : opts[j].shortcuts[k] # name
  ELSE 0

\* InputDefinition.argumentNames()
argumentNames(argus) == [i \in 1..Len(argus) |-> argus[i].name]

\* Input.setOption(name, value)
setOption(bound, name, value) == MapSet(bound, name, value)

(* ------------------------------ ArgvInput ------------------------------ *)

NoArgumentsExpected == "No arguments expected"

TooManyArguments(argus) ==
  "Too many arguments: expected arguments \"" \o join(argumentNames(argus), ", ") \o "\""

UnexpectedOption(name) == "Unexpected option \"" \o name \o "\""

\* the callback of args.forEach in assignArgumentsFrom, for one (argument, index)
assignArgument(argus, bound, token, index) ==
  IF hasArgument(argus, Num(index))
  THEN [arguments |-> MapSet(bound, nameOf(argus, argument(argus, Num(index))), token),
        error |-> NoError]
  ELSE IF Len(argus) = 0
  THEN [arguments |-> bound, error |-> NoArgumentsExpected]
  ELSE [arguments |-> bound, error |-> TooManyArguments(argus)]

\* ArgvInput.assignArgumentsFrom(args), from index on: forEach until a throw
RECURSIVE assignArgumentsFrom(_, _, _, _)
assignArgumentsFrom(argus, tokens, index, bound) ==
  IF index >= Len(tokens) THEN [arguments |-> bound, error |-> NoError]
  ELSE LET r == assignArgument(argus, bound, tokens[index + 1], index)
       IN IF r.error # NoError THEN r
          ELSE assignArgumentsFrom(argus, tokens, index + 1, r.arguments)

\* mutant of assignOption: a key that is no shortcut is stored unchecked
assignOption_passThrough(opts, bound, name, value) ==
  IF hasOptionShortcut(opts, name)
  THEN [error |-> NoError,
        options |-> setOption(bound, nameOf(opts, optionByShortcut(opts, name)), value)]
  ELSE [error |-> NoError, options |-> MapSet(bound, name, value)]

\* the callback of Object.entries(options).forEach in assignOptionsFrom
assignOption(opts, bound, name, value) ==
  IF hasOptionShortcut(opts, name)
  THEN [error |-> NoError,
        options |-> setOption(bound, nameOf(opts, optionByShortcut(opts, name)), value)]
  ELSE IF hasOption(opts, Str(name))
  THEN [error |-> NoError, options |-> MapSet(bound, name, value)]
  ELSE [error |-> UnexpectedOption(name), options |-> bound]

\* mutant of assignOptionsFrom: returns after the first entry
assignOptionsFrom_firstOnly(opts, entries, k, bound) ==
  IF k > Len(entries) THEN [error |-> NoError, options |-> bound]
  ELSE assignOption(opts, bound, entries[k].key, entries[k].value)

\* ArgvInput.assignOptionsFrom(options), from entry k on
RECURSIVE assignOptionsFrom(_, _, _, _)
assignOptionsFrom(opts, entries, k, bound) ==
  IF k > Len(entries) THEN [error |-> NoError, options |-> bound]
  ELSE LET r == assignOption(opts, bound, entries[k].key, entries[k].value)
       IN IF r.error # NoError THEN r
          ELSE assignOptionsFrom(opts, entries, k + 1, r.options)

\* args.slice(1)
slice1(arr) == IF Len(arr) = 0 THEN <<>> ELSE Tail(arr)

\* mutant of assignParsedInput: the options are assigned although the arguments threw
assignParsedInput_optionsAnyway(opts, argus, p, boundArgs, boundOpts) ==
  LET a == assignArgumentsFrom(argus, slice1(p.positional), 0, boundArgs)
      o == assignOptionsFrom(opts, p.entries, 1, boundOpts)
  IN [arguments |-> a.arguments,
      error |-> IF a.error # NoError THEN a.error ELSE o.error,
      options |-> o.options]

\* ArgvInput.assignParsedInput(): arguments first, options unless that threw
assignParsedInput(opts, argus, p, boundArgs, boundOpts) ==
  LET a == assignArgumentsFrom(argus, slice1(p.positional), 0, boundArgs)
  IN IF a.error # NoError
     THEN [arguments |-> a.arguments, error |-> a.error, options |-> boundOpts]
     ELSE LET o == assignOptionsFrom(opts, p.entries, 1, boundOpts)
          IN [arguments |-> a.arguments, error |-> o.error, options |-> o.options]

(* ------------------------------ the state ------------------------------ *)

VARIABLES
  options,         \* InputDefinition.meta.options, in insertion order
  arguments,       \* InputDefinition.meta.arguments, in insertion order
  args,            \* ArgvInput.args, as the tokenizer will deliver them
  parsed,          \* ArgvInput.parsed
  boundArguments,  \* Input.arguments(): Map
  boundOptions,    \* Input.options(): Map
  call,            \* the last operation and its input
  error,           \* the message of the Error it threw, NoError if none
  pc               \* "configure": Command.configure() runs; "handle": input is bound

vars == <<options, arguments, args, parsed, boundArguments, boundOptions, call, error, pc>>

NoTokens == [entries |-> <<>>, positional |-> <<>>]

Call(op, name, shortcuts) == [name |-> name, op |-> op, shortcuts |-> shortcuts]

\* the arrays of distinct shortcuts an option may carry
ShortcutArrays ==
  {s \in UNION {[1..n -> ShortcutStrings] : n \in 0..Cardinality(ShortcutStrings)} :
     \A i, j \in 1..Len(s) : i # j => s[i] # s[j]}

\* option token maps, as the entry list Object.entries yields (keys are unique)
EntryLists ==
  {e \in UNION {[1..n -> [key : OptionKeys, value : OptionValues]] : n \in 0..MaxOptionTokens} :
     \A i, j \in 1..Len(e) : i # j => e[i].key # e[j].key}

PositionalLists ==
  {SubSeq(PositionalTokens, 1, n) : n \in 0..MaxPositional}

Init ==
  /\ options = <<>>
  /\ arguments = <<>>
  /\ args = NoTokens
  /\ parsed = NoTokens
  /\ boundArguments = EmptyMap
  /\ boundOptions = EmptyMap
  /\ call = Call("new", "", <<>>)
  /\ error = NoError
  /\ pc = "configure"

\* Command.addArgument(name)
CommandAddArgument(name) ==
  /\ pc = "configure"
  /\ call' = Call("Command.addArgument", name, <<>>)
  /\ IF name = ""
     THEN /\ error' = "Missing argument name in command " \o ClassName
          /\ UNCHANGED arguments
     ELSE LET r == addArgument(arguments, [name |-> name])
          IN /\ arguments' = r.arguments
             /\ error' = r.error
  /\ UNCHANGED <<options, args, parsed, boundArguments, boundOptions, pc>>

\* Command.addOption(name): registers new InputOption(name), which has no shortcut yet
CommandAddOption(name) ==
  /\ pc = "configure"
  /\ call' = Call("Command.addOption", name, <<>>)
  /\ IF name = ""
     THEN /\ error' = "Missing option name in command " \o ClassName
          /\ UNCHANGED options
     ELSE LET r == addOption(options, [name |-> name, shortcuts |-> <<>>])
          IN /\ options' = r.options
             /\ error' = r.error
  /\ UNCHANGED <<arguments, args, parsed, boundArguments, boundOptions, pc>>

\* InputOptionBuilder.shortcuts(...) on the builder Command.addOption just returned
BuilderShortcuts(shortcuts) ==
  /\ pc = "configure"
  /\ call.op = "Command.addOption"
  /\ error = NoError
  /\ options' = [options EXCEPT ![Len(options)].shortcuts = shortcuts]
  /\ call' = Call("InputOptionBuilder.shortcuts", options[Len(options)].name, shortcuts)
  /\ error' = NoError
  /\ UNCHANGED <<arguments, args, parsed, boundArguments, boundOptions, pc>>

\* InputDefinition.addOption(option) with a pre-built option
DefinitionAddOption(opt) ==
  /\ pc = "configure"
  /\ call' = Call("InputDefinition.addOption", opt.name, opt.shortcuts)
  /\ LET r == addOption(options, opt)
     IN /\ options' = r.options
        /\ error' = r.error
  /\ UNCHANGED <<arguments, args, parsed, boundArguments, boundOptions, pc>>

\* new ArgvInput(args)
Construct(tokens) ==
  /\ pc = "configure"
  /\ args' = tokens
  /\ parsed' = NoTokens
  /\ boundArguments' = EmptyMap
  /\ boundOptions' = EmptyMap
  /\ call' = Call("new ArgvInput", "", <<>>)
  /\ error' = NoError
  /\ pc' = "handle"
  /\ UNCHANGED <<options, arguments>>

\* ArgvInput.parse()
Parse ==
  /\ pc = "handle"
  /\ parsed' = args
  /\ LET r == assignParsedInput(options, arguments, args, boundArguments, boundOptions)
     IN /\ boundArguments' = r.arguments
        /\ boundOptions' = r.options
        /\ error' = r.error
  /\ call' = Call("ArgvInput.parse", "", <<>>)
  /\ UNCHANGED <<options, arguments, args, pc>>

Next ==
  \/ \E name \in ArgumentNames \cup {""} : CommandAddArgument(name)
  \/ \E name \in OptionNames \cup {""} : CommandAddOption(name)
  \/ \E s \in ShortcutArrays : BuilderShortcuts(s)
  \/ \E name \in OptionNames, s \in ShortcutArrays :
       DefinitionAddOption([name |-> name, shortcuts |-> s])
  \/ \E p \in PositionalLists, e \in EntryLists :
       Construct([entries |-> e, positional |-> p])
  \/ Parse

Spec == Init /\ [][Next]_vars

(* ====================== helpers of the properties ====================== *)

\* the positional tokens the binder sees: `_` without the command name
Tokens == slice1(args.positional)

RegisteredOptionNames == {options[i].name : i \in 1..Len(options)}

ShortcutsOf(opt) == {opt.shortcuts[k] : k \in 1..Len(opt.shortcuts)}

RegisteredShortcuts == UNION {ShortcutsOf(options[i]) : i \in 1..Len(options)}

\* left fold of the names into "n1, n2, ..."
RECURSIVE NameList(_, _, _)
NameList(argus, k, acc) ==
  IF k > Len(argus) THEN acc
  ELSE NameList(argus, k + 1, IF k = 1 THEN argus[k].name ELSE acc \o ", " \o argus[k].name)

PositionalErrors ==
  {"No arguments expected",
   "Too many arguments: expected arguments \"" \o NameList(arguments, 1, "") \o "\""}

Parsed == call.op = "ArgvInput.parse"

Range(m) == {m[x] : x \in DOMAIN m}

\* the keys of the parsed option tokens that are no name and no shortcut
UnknownEntries ==
  {k \in 1..Len(args.entries) :
     args.entries[k].key \notin RegisteredOptionNames \cup RegisteredShortcuts}

FirstOf(S) == CHOOSE k \in S : \A j \in S : k <= j

(* ================================ C1 =================================== *)

\* C1 (as claimed): binding M <= N positional tokens raises no positional error
\* and leaves exactly M bound arguments, the i-th registered name mapped to token i.
C1_TokensBoundToArgumentNames ==
  (Parsed /\ Len(Tokens) <= Len(arguments)) =>
    /\ error \notin PositionalErrors
    /\ boundArguments =
         [n \in {arguments[i].name : i \in 1..Len(Tokens)} |->
            Tokens[CHOOSE i \in 1..Len(Tokens) : arguments[i].name = n]]

(* ================================ C2 =================================== *)

\* C2: binding more positional tokens than registered arguments fails, with
\* "No arguments expected" when no argument is registered and otherwise with
\* "Too many arguments" listing the registered names in registration order;
\* no excess token is stored in the bound arguments.
C2_ExcessTokensFail ==
  (Parsed /\ Len(Tokens) > Len(arguments)) =>
    /\ error = IF Len(arguments) = 0
               THEN "No arguments expected"
               ELSE "Too many arguments: expected arguments \""
                      \o NameList(arguments, 1, "") \o "\""
    /\ \A k \in (Len(arguments) + 1)..Len(Tokens) : Tokens[k] \notin Range(boundArguments)

C2_Witness ==
  /\ Parsed
  /\ Len(arguments) = 2
  /\ Len(Tokens) = 3
  /\ error = "Too many arguments: expected arguments \"file, dir\""

(* ================================ C3 =================================== *)

\* C3 (as claimed): for every registered option o with a shortcut s, binding the
\* single option token {s: v} and binding {o.name: v} both leave exactly one
\* bound option, o.name -> v.
C3_ShortcutBindsLikeName ==
  (Parsed /\ error \notin PositionalErrors /\ Len(args.entries) = 1) =>
    \A i \in 1..Len(options) :
      (/\ ShortcutsOf(options[i]) # {}
       /\ args.entries[1].key \in ShortcutsOf(options[i]) \cup {options[i].name})
      => /\ error = NoError
         /\ boundOptions = [n \in {options[i].name} |-> args.entries[1].value]

(* ================================ C4 =================================== *)

\* C4 (as claimed): a bind that fails leaves the bound arguments and the bound
\* options as they were before the call.
C4_FailedBindAppliesNothing ==
  [][(call'.op = "ArgvInput.parse" /\ error' # NoError) =>
       (boundArguments' = boundArguments /\ boundOptions' = boundOptions)]_vars

\* C4 (amended): a bind that fails stops at the offending token: the mappings it
\* leaves are those a bind of only the tokens before the offending one leaves
\* (they are kept, not rolled back); the offending token, every later token and,
\* after a positional failure, every option token are not applied.
C4_FailedBindStopsAtOffendingToken ==
  [][(call'.op = "ArgvInput.parse" /\ error' # NoError) =>
       IF Len(Tokens) > Len(arguments)
       THEN /\ error' \in PositionalErrors
            /\ boundArguments' =
                 assignArgumentsFrom(arguments, SubSeq(Tokens, 1, Len(arguments)), 0,
                                     boundArguments).arguments
            /\ boundOptions' = boundOptions
       ELSE /\ UnknownEntries # {}
            /\ boundArguments' =
                 assignArgumentsFrom(arguments, Tokens, 0, boundArguments).arguments
            /\ boundOptions' =
                 assignOptionsFrom(options, SubSeq(args.entries, 1, FirstOf(UnknownEntries) - 1),
                                   1, boundOptions).options]_vars

C4_Witness ==
  /\ Parsed
  /\ error \in PositionalErrors
  /\ Len(arguments) = 1
  /\ Len(Tokens) = 2
  /\ Tokens[1] \in Range(boundArguments)

(* ================================ C5 =================================== *)

\* C5 (as claimed): no shortcut belongs to two different registered options.
C5_NoSharedShortcut ==
  \A i, j \in 1..Len(options) :
    i # j => ShortcutsOf(options[i]) \cap ShortcutsOf(options[j]) = {}

(* ================================ C6 =================================== *)

\* C6 (as claimed): InputDefinition.addOption(option) fails with the duplicate
\* option error when the name is registered, fails with a duplicate shortcut
\* error when one of its shortcuts equals a shortcut of a registered option, and
\* otherwise succeeds and adds the option.
C6_AddOptionOutcome ==
  [][call'.op = "InputDefinition.addOption" =>
       IF call'.name \in RegisteredOptionNames
       THEN /\ error' = "Option \"" \o call'.name \o "\" is already registered."
            /\ options' = options
       ELSE IF \E k \in 1..Len(call'.shortcuts) : call'.shortcuts[k] \in RegisteredShortcuts
       THEN /\ \E k \in 1..Len(call'.shortcuts), i \in 1..Len(options) :
                 /\ call'.shortcuts[k] \in ShortcutsOf(options[i])
                 /\ error' = "Shortcut \"" \o call'.shortcuts[k]
                               \o "\" is already registered for option \""
                               \o options[i].name \o "\"."
            /\ options' = options
       ELSE /\ error' = NoError
            /\ options' = Append(options, [name |-> call'.name, shortcuts |-> call'.shortcuts])]_vars

(* ================================ C7 =================================== *)

C8_DuplicateArgumentRejected ==
  /\ [](\A i, j \in 1..Len(arguments) : i # j => arguments[i].name # arguments[j].name)
  /\ [][(/\ call'.op = "Command.addArgument"
         /\ call'.name \in {arguments[i].name : i \in 1..Len(arguments)})
        => (/\ error' = "Option \"" \o call'.name \o "\" is already registered."
            /\ arguments' = arguments)]_vars

C8_Witness ==
  /\ call.op = "Command.addArgument"
  /\ call.name = "file"
  /\ error = "Option \"file\" is already registered."
  /\ Len(arguments) = 2
  /\ arguments[2].name = "file"

(* ================================ C9 =================================== *)

KeyUniverse == OptionNames \cup ShortcutStrings \cup OptionKeys

IndexUniverse == (0 - 1)..(Cardinality(ArgumentNames) + 1)

\* hasArgument(i) is true exactly for 0 <= i < number of registered arguments
HasArgumentByIndex ==
  \A i \in IndexUniverse :
    hasArgument(arguments, Num(i)) <=> (0 <= i /\ i < Len(arguments))

\* index i denotes the argument registered i-th: a registration takes the next
\* free index and moves no earlier argument
RegistrationOrder ==
  (call'.op = "Command.addArgument" /\ error' = NoError) =>
    /\ ~hasArgument(arguments, Num(Len(arguments)))
    /\ hasArgument(arguments', Num(Len(arguments)))
    /\ arguments'[Len(arguments) + 1].name = call'.name
    /\ SubSeq(arguments', 1, Len(arguments)) = arguments

\* C9 (as claimed): hasOption(key) is true exactly when key is the name or a
\* shortcut of a registered option; hasArgument(i) exactly when 0 <= i < N.
C9_HasOptionByNameOrShortcut ==
  /\ \A key \in KeyUniverse :
       hasOption(options, Str(key)) <=> key \in RegisteredOptionNames \cup RegisteredShortcuts
  /\ HasArgumentByIndex

\* C9 (amended): hasOption(key) is true exactly when key is the name of a
\* registered option (a shortcut alone does not match); hasArgument(i) is true
\* exactly when 0 <= i < N, index i denoting the argument registered i-th.
C9_HasOptionByName ==
  /\ [](\A key \in KeyUniverse :
          hasOption(options, Str(key)) <=> key \in RegisteredOptionNames)
  /\ []HasArgumentByIndex
  /\ [][RegistrationOrder]_vars

C9_Witness ==
  /\ Len(options) = 1
  /\ options[1].name = "verbose"
  /\ options[1].shortcuts = <<"v">>
  /\ hasOption(options, Str("verbose"))
  /\ ~hasOption(options, Str("v"))
  /\ Len(arguments) = 2
  /\ hasArgument(arguments, Num(1))
  /\ ~hasArgument(arguments, Num(2))

(* ================================ C10 ================================== *)

\* the outcome of a bind: the two mappings on success, the error on failure
Outcome(r) ==
  IF r.error = NoError
  THEN [arguments |-> r.arguments, error |-> NoError, ok |-> TRUE, options |-> r.options]
  ELSE [arguments |-> EmptyMap, error |-> r.error, ok |-> FALSE, options |-> EmptyMap]

\* the entry lists holding the same option tokens in another processing order
Reorderings(entries) ==
  {e \in [1..Len(entries) -> Range(entries)] : Range(e) = Range(entries)}

\* the bind of the same tokens on a fresh input, option tokens in the order e
BindInOrder(e) ==
  assignParsedInput(options, arguments, [entries |-> e, positional |-> args.positional],
                    EmptyMap, EmptyMap)

\* the canonical name an option key is stored under
ResolvedName(key) ==
  IF key \in RegisteredShortcuts THEN nameOf(options, optionByShortcut(options, key)) ELSE key

OrderIndependent ==
  \A e \in Reorderings(args.entries) :
    Outcome(BindInOrder(e)) =
      Outcome([arguments |-> boundArguments, error |-> error, options |-> boundOptions])

\* C10 (as claimed): the outcome of a bind is the same whatever order the option
\* tokens are processed in.
C10_SameOutcomeInAnyOrder == Parsed => OrderIndependent

\* C10 (amended): the outcome of a bind is the same in every processing order of
\* the option tokens provided at most one key is unrecognised and no two keys
\* resolve to the same option with different values.
C10_SameOutcomeWithoutConflicts ==
  (/\ Parsed
   /\ Cardinality(UnknownEntries) <= 1
   /\ \A i, j \in 1..Len(args.entries) :
        ResolvedName(args.entries[i].key) = ResolvedName(args.entries[j].key)
          => args.entries[i].value = args.entries[j].value)
  => OrderIndependent

C10_Witness ==
  /\ Parsed
  /\ error = NoError
  /\ Len(args.entries) = 2
  /\ args.entries[1].key = "verbose"
  /\ args.entries[2].key = "v"
  /\ args.entries[1].value = args.entries[2].value
  /\ DOMAIN boundOptions = {"verbose"}

====
